---- MODULE Spec2Model ----
(***************************************************************************)
(* Model of diskdump.py: a block device is imaged to a gzip dump (backup), *)
(* written back (restore), compared (check) or measured (info).            *)
(*                                                                         *)
(* The files live outside the program: `disk` is the byte content of the   *)
(* device node, `dump` the decompressed payload of the gzip member stored  *)
(* in the dump node (the gzip codec is the standard library's and is       *)
(* lossless; the program only ever sees the decompressed byte stream).     *)
(* One run of the program is a sequence of steps, one per statement group  *)
(* of the selected cmd_* function; the program can be run again on the     *)
(* same files once a run has exited.                                       *)
(***************************************************************************)
EXTENDS Integers, Sequences, FiniteSets

\* ---- bounds of the model ------------------------------------------------
MaxDisk == 3        \* longest device content, in bytes
MaxDump == 3        \* longest decompressed dump content, in bytes
MaxBlock == 3       \* largest --block-size tried
MaxBuf == 2         \* largest st_blksize of the device, in bytes
Byte == {0, 1}      \* byte values

VARIABLES
    disk,           \* content of the device node
    diskKind,       \* "blk" (block special) or "reg" (some other node)
    st_blksize,     \* preferred I/O size of the device node: the buffer size
                    \* open(ns.disk, "rb") gives its BufferedReader
    dump,           \* decompressed content of the dump node
    dumpKind,       \* "reg", "chr" (openable, not regular), "dir", "absent"
    pc,             \* position in the running command
    action,         \* ns.action: "cmd_info", "cmd_backup", ...
    block_size,     \* ns.block_size
    disk_stream,    \* handle state: "none", "open", "closed"
    dump_stream,    \* handle state: "none", "open", "closed"
    diskPos,        \* file offset of the device handle (tell())
    diskBuf,        \* bytes disk_stream has read ahead of diskPos
    dumpPos,        \* offset in the decompressed stream
    disk_size,      \* local disk_size
    block_count,    \* local block_count
    block_id,       \* loop variable
    block,          \* local block (cmd_backup, cmd_restore), disk_block (cmd_check)
    good,           \* local good of cmd_check: "unbound", "True", "False"
    exc,            \* exception in flight: "none" or its class name
    result,         \* value returned by main(): "None", "True", "False"
    exit_status,    \* exit status of the process, -1 while running
    log,            \* history: I/O calls on both endpoints and reports printed
    resized,        \* history: the device changed size during this run
    rt              \* history: progress of a backup/restore/check round trip

files   == <<disk, diskKind, st_blksize, dump, dumpKind>>
handles == <<disk_stream, dump_stream, diskPos, diskBuf, dumpPos>>
locals  == <<disk_size, block_count, block_id, block, good>>
ctl     == <<pc, action, block_size, exc, result, exit_status>>
hist    == <<log, resized, rt>>
vars    == <<disk, diskKind, st_blksize, dump, dumpKind, pc, action,
             block_size, disk_stream, dump_stream, diskPos, diskBuf, dumpPos,
             disk_size,
             block_count, block_id, block, good, exc, result, exit_status,
             log, resized, rt>>

\* ---- helpers --------------------------------------------------------------
Min(a, b) == IF a < b THEN a ELSE b
Max(a, b) == IF a < b THEN b ELSE a

Contents(n) == [1..n -> Byte]
AllContents(max) == UNION {Contents(n) : n \in 0..max}

Actions == {"cmd_info", "cmd_backup", "cmd_restore", "cmd_check"}

\* One entry of the history: endpoint, call, block index (-1 outside the
\* loop) and number of bytes moved.
Ev(ep, op, id, n) == [ep |-> ep, op |-> op, id |-> id, n |-> n]

\* An unbuffered read of n bytes at offset pos: up to n bytes, fewer only at
\* end of data.
ReadAt(content, pos, n) == SubSeq(content, pos + 1, Min(pos + n, Len(content)))

\* disk_stream.read(n) of the BufferedReader over the device: buf holds the
\* bytes read ahead of offset pos, B is the buffer size. A request the buffer
\* covers is served from it without touching the device. Otherwise the
\* buffered bytes come first, whole multiples of B are read from the device
\* directly, and the rest is served by filling the buffer with one raw read
\* of B bytes, whose unused part stays buffered. Raw reads are short only at
\* the end of the device.
BufferedRead(content, pos, buf, n, B) ==
    IF n <= Len(buf)
      THEN [out |-> SubSeq(buf, 1, n), buf |-> SubSeq(buf, n + 1, Len(buf))]
      ELSE LET raw == pos + Len(buf)
               remaining == n - Len(buf)
               r == B * (remaining \div B)
               d == ReadAt(content, raw, r)
           IN  IF Len(d) < r \/ remaining = r
                 THEN [out |-> buf \o d, buf |-> <<>>]
                 ELSE LET f == ReadAt(content, raw + r, B)
                          take == Min(remaining - r, Len(f))
                      IN  [out |-> buf \o d \o SubSeq(f, 1, take),
                           buf |-> SubSeq(f, take + 1, Len(f))]

\* os.write(fd, blk) on a block device at offset pos: the device never grows,
\* bytes past its end are dropped (short write).
WriteAt(content, pos, blk) ==
    [i \in 1..Len(content) |->
        IF pos < i /\ i <= pos + Len(blk) THEN blk[i - pos] ELSE content[i]]

\* Python ==: values of different types (bytes, str) are never equal.
Bytes(v) == [type |-> "bytes", val |-> v]
Str(v) == [type |-> "str", val |-> v]
PyEq(a, b) == a.type = b.type /\ a.val = b.val

\* block_count = (disk_size + block_size - 1) // block_size
BlockCountFloor(size, bs) == size \div bs
BlockCount(size, bs) == (size + bs - 1) \div bs

\* dump_block != disk_block
MismatchLenOnly(dump_block, disk_block) == Len(dump_block) # Len(disk_block)
Mismatch(dump_block, disk_block) == dump_block # disk_block

\* Exit status of raise SystemExit(v): None -> 0, an int (bool included) -> v.
SystemExitCode(v) == IF v = "True" THEN 1 ELSE 0

RECURSIVE SumN(_)
SumN(s) == IF s = <<>> THEN 0 ELSE Head(s).n + SumN(Tail(s))

\* ---- initial state --------------------------------------------------------
Init ==
    /\ disk \in AllContents(MaxDisk)
    /\ diskKind \in {"blk", "reg"}
    /\ st_blksize \in 1..MaxBuf
    /\ dumpKind \in {"reg", "chr", "dir", "absent"}
    /\ dump \in (IF dumpKind = "reg" THEN AllContents(MaxDump) ELSE {<<>>})
    /\ pc = "idle"
    /\ action = "cmd_info"
    /\ block_size = 1
    /\ disk_stream = "none" /\ dump_stream = "none"
    /\ diskPos = 0 /\ dumpPos = 0
    /\ diskBuf = <<>>
    /\ disk_size = 0 /\ block_count = 0 /\ block_id = 0
    /\ block = <<>>
    /\ good = "unbound"
    /\ exc = "none" /\ result = "None" /\ exit_status = -1
    /\ log = <<>>
    /\ resized = FALSE
    /\ rt = [stage |-> 0, D |-> <<>>]

\* ---- parse_args -----------------------------------------------------------
\* A new run of the program: the action and --block-size are chosen; a block
\* size below 1 is a usage error (exit status 2).
parse_args ==
    /\ pc \in {"idle", "exited"}
    /\ \E a \in Actions, bs \in 0..MaxBlock :
        /\ action' = a
        /\ block_size' = bs
        /\ IF bs < 1
             THEN /\ pc' = "exited" /\ exc' = "usage" /\ exit_status' = 2
             ELSE /\ pc' = "open" /\ exc' = "none" /\ exit_status' = -1
    /\ result' = "None"
    /\ disk_stream' = "none" /\ dump_stream' = "none"
    /\ diskPos' = 0 /\ dumpPos' = 0
    /\ diskBuf' = <<>>
    /\ disk_size' = 0 /\ block_count' = 0 /\ block_id' = 0
    /\ block' = <<>>
    /\ good' = "unbound"
    /\ log' = <<>>
    /\ resized' = FALSE
    /\ rt' = IF rt.stage = 3 THEN [stage |-> 0, D |-> <<>>] ELSE rt
    /\ UNCHANGED files

\* ---- shared shapes --------------------------------------------------------
\* open(ns.disk) then gzip.open(ns.dump, "rb"), both before the try: when the
\* second open fails the first handle is left as it is.
OpenForRead ==
    /\ disk_stream' = "open"
    /\ IF dumpKind \in {"dir", "absent"}
         THEN /\ dump_stream' = "none" /\ exc' = "IOError" /\ pc' = "main"
         ELSE /\ dump_stream' = "open" /\ exc' = exc /\ pc' = "validate"
    /\ UNCHANGED <<diskPos, diskBuf, dumpPos, files, locals, action, block_size,
                   result, exit_status, hist>>

\* finally: disk close, then dump close. A close that raises has still
\* released its descriptor; the close after it is not reached.
Finally(next) ==
    /\ \E f1 \in BOOLEAN, f2 \in BOOLEAN :
        /\ disk_stream' = "closed"
        /\ dump_stream' = IF f1 THEN dump_stream ELSE "closed"
        /\ exc' = IF f1 \/ f2 THEN "IOError" ELSE exc
        /\ pc' = IF exc' = "none" THEN next ELSE "main"
    /\ UNCHANGED <<diskPos, diskBuf, dumpPos, files, locals, action, block_size,
                   result, exit_status, hist>>

\* ---- cmd_info ------------------------------------------------------------
cmd_info_open ==
    /\ pc = "open" /\ action = "cmd_info"
    /\ OpenForRead

\* Both node kinds are checked before anything else is done.
cmd_info_validate ==
    /\ pc = "validate" /\ action = "cmd_info"
    /\ IF diskKind # "blk" \/ dumpKind # "reg"
         THEN exc' = "ValueError" /\ pc' = "finally"
         ELSE exc' = exc /\ pc' = "size"
    /\ UNCHANGED <<files, handles, locals, action, block_size, result,
                   exit_status, hist>>

cmd_info_size ==
    /\ pc = "size" /\ action = "cmd_info"
    /\ disk_size' = Len(disk)
    /\ diskPos' = Len(disk)
    /\ diskBuf' = <<>>
    /\ log' = Append(log, Ev("disk", "seek", -1, 0))
    /\ pc' = "finally"
    /\ UNCHANGED <<files, disk_stream, dump_stream, dumpPos, block_count,
                   block_id, block, good, action, block_size, exc, result,
                   exit_status, resized, rt>>

cmd_info_finally ==
    /\ pc = "finally" /\ action = "cmd_info"
    /\ Finally("main")

\* ---- cmd_backup ----------------------------------------------------------
\* open(ns.disk, "rb") then gzip.open(ns.dump, "wb"): the dump is created or
\* truncated here, before the try block and before any validation.
cmd_backup_open ==
    /\ pc = "open" /\ action = "cmd_backup"
    /\ disk_stream' = "open"
    /\ IF dumpKind = "dir"
         THEN /\ dump_stream' = "none" /\ exc' = "IOError" /\ pc' = "main"
              /\ UNCHANGED <<dump, dumpKind, log, rt>>
         ELSE /\ dump_stream' = "open" /\ exc' = exc /\ pc' = "validate"
              /\ IF dumpKind = "chr"
                   THEN UNCHANGED <<dump, dumpKind, log, rt>>
                   ELSE /\ dump' = <<>>
                        /\ dumpKind' = "reg"
                        /\ log' = Append(log, Ev("dump", "truncate", -1, 0))
                        /\ rt' = [stage |-> 0, D |-> <<>>]
    /\ UNCHANGED <<disk, diskKind, st_blksize, diskPos, diskBuf, dumpPos, locals, action,
                   block_size, result, exit_status, resized>>

\* Only the device side is validated by cmd_backup.
cmd_backup_validate ==
    /\ pc = "validate" /\ action = "cmd_backup"
    /\ IF diskKind # "blk"
         THEN exc' = "ValueError" /\ pc' = "finally"
         ELSE exc' = exc /\ pc' = "size"
    /\ UNCHANGED <<files, handles, locals, action, block_size, result,
                   exit_status, hist>>

cmd_backup_size ==
    /\ pc = "size" /\ action = "cmd_backup"
    /\ disk_size' = Len(disk)
    /\ diskPos' = 0
    /\ diskBuf' = <<>>
    /\ block_count' = BlockCount(Len(disk), block_size)
    /\ block_id' = 0
    /\ log' = log \o <<Ev("disk", "seek", -1, 0), Ev("disk", "seek", -1, 0)>>
    /\ pc' = "read"
    /\ UNCHANGED <<files, disk_stream, dump_stream, dumpPos, block, good,
                   action, block_size, exc, result, exit_status, resized, rt>>

\* block = disk_stream.read(block_size); if block == '': break
\* (block is bytes, '' is str).
cmd_backup_read ==
    /\ pc = "read" /\ action = "cmd_backup"
    /\ block_id < block_count
    /\ \E err \in BOOLEAN :
        IF err
          THEN /\ exc' = "IOError" /\ pc' = "finally"
               /\ UNCHANGED <<block, diskPos, diskBuf, log>>
          ELSE /\ LET rd == BufferedRead(disk, diskPos, diskBuf, block_size,
                                         st_blksize)
                  IN  block' = rd.out /\ diskBuf' = rd.buf
               /\ diskPos' = diskPos + Len(block')
               /\ exc' = exc
               /\ IF PyEq(Bytes(block'), Str(<<>>))
                    THEN /\ log' = log \o <<Ev("disk", "read", block_id, Len(block')),
                                            Ev("stdout", "eof", block_id, 0)>>
                         /\ pc' = "assert"
                    ELSE /\ log' = Append(log, Ev("disk", "read", block_id, Len(block')))
                         /\ pc' = "write"
    /\ UNCHANGED <<files, disk_stream, dump_stream, dumpPos, disk_size,
                   block_count, block_id, good, action, block_size, result,
                   exit_status, resized, rt>>

cmd_backup_write ==
    /\ pc = "write" /\ action = "cmd_backup"
    /\ dump' = IF dumpKind = "reg" THEN dump \o block ELSE dump
    /\ dumpPos' = dumpPos + Len(block)
    /\ log' = Append(log, Ev("dump", "write", block_id, Len(block)))
    /\ block_id' = block_id + 1
    /\ pc' = "read"
    /\ UNCHANGED <<disk, diskKind, st_blksize, dumpKind, disk_stream, dump_stream, diskPos, diskBuf,
                   disk_size, block_count, block, good, action, block_size,
                   exc, result, exit_status, resized, rt>>

\* assert disk_stream.read(block_size) == b''
cmd_backup_assert ==
    /\ action = "cmd_backup"
    /\ pc = "assert" \/ (pc = "read" /\ block_id >= block_count)
    /\ LET rd == BufferedRead(disk, diskPos, diskBuf, block_size, st_blksize)
           tail == rd.out IN
        /\ diskPos' = diskPos + Len(tail)
        /\ diskBuf' = rd.buf
        /\ log' = Append(log, Ev("disk", "read", -1, Len(tail)))
        /\ exc' = IF PyEq(Bytes(tail), Bytes(<<>>)) THEN exc ELSE "AssertionError"
    /\ pc' = "finally"
    /\ UNCHANGED <<files, disk_stream, dump_stream, dumpPos, locals, action,
                   block_size, result, exit_status, resized, rt>>

cmd_backup_finally ==
    /\ pc = "finally" /\ action = "cmd_backup"
    /\ Finally("main")

\* ---- cmd_check -----------------------------------------------------------
cmd_check_open ==
    /\ pc = "open" /\ action = "cmd_check"
    /\ OpenForRead

cmd_check_validate ==
    /\ pc = "validate" /\ action = "cmd_check"
    /\ IF diskKind # "blk"
         THEN exc' = "ValueError" /\ pc' = "finally"
         ELSE exc' = exc /\ pc' = "size"
    /\ UNCHANGED <<files, handles, locals, action, block_size, result,
                   exit_status, hist>>

cmd_check_size ==
    /\ pc = "size" /\ action = "cmd_check"
    /\ disk_size' = Len(disk)
    /\ diskPos' = 0
    /\ diskBuf' = <<>>
    /\ log' = log \o <<Ev("disk", "seek", -1, 0), Ev("disk", "seek", -1, 0)>>
    /\ pc' = "validate_dump"
    /\ UNCHANGED <<files, disk_stream, dump_stream, dumpPos, block_count,
                   block_id, block, good, action, block_size, exc, result,
                   exit_status, resized, rt>>

\* The dump side is validated after the device has been measured.
cmd_check_validate_dump ==
    /\ pc = "validate_dump" /\ action = "cmd_check"
    /\ IF dumpKind # "reg"
         THEN /\ exc' = "ValueError" /\ pc' = "finally"
              /\ UNCHANGED <<block_count, block_id>>
         ELSE /\ exc' = exc /\ pc' = "read"
              /\ block_count' = BlockCount(disk_size, block_size)
              /\ block_id' = 0
    /\ UNCHANGED <<files, handles, disk_size, block, good, action, block_size,
                   result, exit_status, hist>>

\* disk_block = disk_stream.read(block_size)
cmd_check_read_disk ==
    /\ pc = "read" /\ action = "cmd_check"
    /\ block_id < block_count
    /\ \E err \in BOOLEAN :
        IF err
          THEN /\ exc' = "IOError" /\ pc' = "finally"
               /\ UNCHANGED <<block, diskPos, diskBuf, log>>
          ELSE /\ LET rd == BufferedRead(disk, diskPos, diskBuf, block_size,
                                         st_blksize)
                  IN  block' = rd.out /\ diskBuf' = rd.buf
               /\ diskPos' = diskPos + Len(block')
               /\ log' = Append(log, Ev("disk", "read", block_id, Len(block')))
               /\ exc' = exc /\ pc' = "read_dump"
    /\ UNCHANGED <<files, disk_stream, dump_stream, dumpPos, disk_size,
                   block_count, block_id, good, action, block_size, result,
                   exit_status, resized, rt>>

\* dump_block = dump_stream.read(block_size), then the comparison: the first
\* mismatch sets good = False, reports the block and leaves the loop.
cmd_check_read_dump ==
    /\ pc = "read_dump" /\ action = "cmd_check"
    /\ LET dump_block == ReadAt(dump, dumpPos, block_size) IN
        /\ dumpPos' = dumpPos + Len(dump_block)
        /\ IF Mismatch(dump_block, block)
             THEN /\ good' = "False"
                  /\ log' = log \o <<Ev("dump", "read", block_id, Len(dump_block)),
                                     Ev("stdout", "mismatch", block_id, 0)>>
                  /\ block_id' = block_id
                  /\ pc' = "finally"
             ELSE /\ good' = "True"
                  /\ log' = Append(log, Ev("dump", "read", block_id, Len(dump_block)))
                  /\ block_id' = block_id + 1
                  /\ pc' = "read"
    /\ UNCHANGED <<files, disk_stream, dump_stream, diskPos, diskBuf, disk_size,
                   block_count, block, action, block_size, exc, result,
                   exit_status, resized, rt>>

cmd_check_finally ==
    /\ action = "cmd_check"
    /\ pc = "finally" \/ (pc = "read" /\ block_id >= block_count)
    /\ Finally("epilogue")

\* if good: ... else: ...; return good. good is bound only by the loop body.
cmd_check_return ==
    /\ pc = "epilogue" /\ action = "cmd_check"
    /\ IF good = "unbound"
         THEN exc' = "UnboundLocalError" /\ result' = result
         ELSE exc' = exc /\ result' = good
    /\ pc' = "main"
    /\ UNCHANGED <<files, handles, locals, action, block_size, exit_status,
                   hist>>

\* ---- cmd_restore ---------------------------------------------------------
\* os.open(ns.disk, O_WRONLY|O_SYNC) then gzip.open(ns.dump, "rb");
\* disk_stream stands for disk_fd.
cmd_restore_open ==
    /\ pc = "open" /\ action = "cmd_restore"
    /\ OpenForRead

cmd_restore_validate ==
    /\ pc = "validate" /\ action = "cmd_restore"
    /\ IF diskKind # "blk"
         THEN exc' = "ValueError" /\ pc' = "finally"
         ELSE exc' = exc /\ pc' = "size"
    /\ UNCHANGED <<files, handles, locals, action, block_size, result,
                   exit_status, hist>>

cmd_restore_size ==
    /\ pc = "size" /\ action = "cmd_restore"
    /\ disk_size' = Len(disk)
    /\ diskPos' = 0
    /\ diskBuf' = <<>>
    /\ log' = log \o <<Ev("disk", "seek", -1, 0), Ev("disk", "seek", -1, 0)>>
    /\ pc' = "validate_dump"
    /\ UNCHANGED <<files, disk_stream, dump_stream, dumpPos, block_count,
                   block_id, block, good, action, block_size, exc, result,
                   exit_status, resized, rt>>

cmd_restore_validate_dump ==
    /\ pc = "validate_dump" /\ action = "cmd_restore"
    /\ IF dumpKind # "reg"
         THEN /\ exc' = "ValueError" /\ pc' = "finally"
              /\ UNCHANGED <<block_count, block_id>>
         ELSE /\ exc' = exc /\ pc' = "read"
              /\ block_count' = BlockCount(disk_size, block_size)
              /\ block_id' = 0
    /\ UNCHANGED <<files, handles, disk_size, block, good, action, block_size,
                   result, exit_status, hist>>

\* block = dump_stream.read(block_size); if block == b'': break
cmd_restore_read ==
    /\ pc = "read" /\ action = "cmd_restore"
    /\ block_id < block_count
    /\ \E err \in BOOLEAN :
        IF err
          THEN /\ exc' = "IOError" /\ pc' = "finally"
               /\ UNCHANGED <<block, dumpPos, log>>
          ELSE /\ block' = ReadAt(dump, dumpPos, block_size)
               /\ dumpPos' = dumpPos + Len(block')
               /\ exc' = exc
               /\ IF PyEq(Bytes(block'), Bytes(<<>>))
                    THEN /\ log' = log \o <<Ev("dump", "read", block_id, Len(block')),
                                            Ev("stdout", "eof", block_id, 0)>>
                         /\ pc' = "assert"
                    ELSE /\ log' = Append(log, Ev("dump", "read", block_id, Len(block')))
                         /\ pc' = "write"
    /\ UNCHANGED <<files, disk_stream, dump_stream, diskPos, diskBuf, disk_size,
                   block_count, block_id, good, action, block_size, result,
                   exit_status, resized, rt>>

\* os.write(disk_fd, block): the whole block is passed to the device; at or
\* past the end of the device the write fails with ENOSPC.
cmd_restore_write ==
    /\ pc = "write" /\ action = "cmd_restore"
    /\ log' = Append(log, Ev("disk", "write", block_id, Len(block)))
    /\ IF diskPos >= Len(disk)
         THEN /\ exc' = "IOError" /\ pc' = "finally"
              /\ UNCHANGED <<disk, diskPos, block_id>>
         ELSE /\ disk' = WriteAt(disk, diskPos, block)
              /\ diskPos' = Min(diskPos + Len(block), Len(disk))
              /\ block_id' = block_id + 1
              /\ exc' = exc /\ pc' = "read"
    /\ UNCHANGED <<diskKind, st_blksize, dump, dumpKind, disk_stream,
                   dump_stream, diskBuf, dumpPos,
                   disk_size, block_count, block, good, action, block_size,
                   result, exit_status, resized, rt>>

\* assert dump_stream.read(block_size) == b''
cmd_restore_assert ==
    /\ action = "cmd_restore"
    /\ pc = "assert" \/ (pc = "read" /\ block_id >= block_count)
    /\ LET tail == ReadAt(dump, dumpPos, block_size) IN
        /\ dumpPos' = dumpPos + Len(tail)
        /\ log' = Append(log, Ev("dump", "read", -1, Len(tail)))
        /\ exc' = IF PyEq(Bytes(tail), Bytes(<<>>)) THEN exc ELSE "AssertionError"
    /\ pc' = "finally"
    /\ UNCHANGED <<files, disk_stream, dump_stream, diskPos, diskBuf, locals, action,
                   block_size, result, exit_status, resized, rt>>

cmd_restore_finally ==
    /\ pc = "finally" /\ action = "cmd_restore"
    /\ Finally("main")

\* ---- main ----------------------------------------------------------------
\* raise SystemExit(main()): the value returned by the action is the exit
\* argument; IOError and ValueError are caught and re-raised as
\* SystemExit(exc) (status 1); anything else is an uncaught exception
\* (traceback, status 1).
main ==
    /\ pc = "main"
    /\ exit_status' = IF exc = "none" THEN SystemExitCode(result) ELSE 1
    /\ pc' = "exited"
    /\ rt' = CASE action = "cmd_info" -> rt
               [] action = "cmd_backup" /\ exc = "none" /\ ~resized
                  /\ dumpKind = "reg" -> [stage |-> 1, D |-> disk]
               [] action = "cmd_restore" /\ exc = "none" /\ ~resized
                  /\ rt.stage = 1 /\ disk_size = Len(rt.D) -> [stage |-> 2, D |-> rt.D]
               [] action = "cmd_check" /\ exc # "IOError" /\ ~resized
                  /\ rt.stage = 2 -> [stage |-> 3, D |-> rt.D]
               [] OTHER -> [stage |-> 0, D |-> <<>>]
    /\ UNCHANGED <<files, handles, locals, action, block_size, exc, result,
                   log, resized>>

\* ---- environment ---------------------------------------------------------
\* The device changes size while a command is between two of its I/O calls
\* (at most once per run): it is cut to a prefix or grows by one byte.
DeviceResize ==
    /\ pc \in {"read", "write", "read_dump", "assert"}
    /\ diskKind = "blk"
    /\ ~resized
    /\ \E new \in AllContents(MaxDisk) :
        /\ \/ Len(new) < Len(disk) /\ new = SubSeq(disk, 1, Len(new))
           \/ Len(new) = Len(disk) + 1 /\ SubSeq(new, 1, Len(disk)) = disk
        /\ disk' = new
    /\ resized' = TRUE
    /\ UNCHANGED <<diskKind, st_blksize, dump, dumpKind, handles, locals, ctl, log, rt>>

\* Between two runs the device content is overwritten by somebody else.
DeviceScramble ==
    /\ pc \in {"idle", "exited"}
    /\ \E new \in Contents(Len(disk)) :
        /\ new # disk
        /\ disk' = new
    /\ pc' = "idle"
    /\ rt' = IF rt.stage = 1 THEN rt ELSE [stage |-> 0, D |-> <<>>]
    /\ UNCHANGED <<diskKind, st_blksize, dump, dumpKind, handles, locals, action,
                   block_size, exc, result, exit_status, log, resized>>

Next ==
    \/ parse_args
    \/ cmd_info_open \/ cmd_info_validate \/ cmd_info_size \/ cmd_info_finally
    \/ cmd_backup_open \/ cmd_backup_validate \/ cmd_backup_size
    \/ cmd_backup_read \/ cmd_backup_write \/ cmd_backup_assert
    \/ cmd_backup_finally
    \/ cmd_check_open \/ cmd_check_validate \/ cmd_check_size
    \/ cmd_check_validate_dump \/ cmd_check_read_disk \/ cmd_check_read_dump
    \/ cmd_check_finally \/ cmd_check_return
    \/ cmd_restore_open \/ cmd_restore_validate \/ cmd_restore_size
    \/ cmd_restore_validate_dump \/ cmd_restore_read \/ cmd_restore_write
    \/ cmd_restore_assert \/ cmd_restore_finally
    \/ main
    \/ DeviceResize
    \/ DeviceScramble

Spec == Init /\ [][Next]_vars

TypeOK ==
    /\ disk \in AllContents(MaxDisk)
    /\ pc \in {"idle", "open", "validate", "size", "validate_dump", "read",
               "read_dump", "write", "assert", "finally", "epilogue", "main",
               "exited"}
    /\ disk_stream \in {"none", "open", "closed"}
    /\ dump_stream \in {"none", "open", "closed"}
    /\ good \in {"unbound", "True", "False"}
    /\ result \in {"None", "True", "False"}

\* ---- properties -----------------------------------------------------------
CeilDiv(a, b) == CHOOSE q \in 0..a : q * b >= a /\ (q = 0 \/ (q - 1) * b < a)

IsDiskRead(e) == e.ep = "disk" /\ e.op = "read" /\ e.id >= 0
IsDiskWrite(e) == e.ep = "disk" /\ e.op = "write"
IsCompare(e) == e.op \in {"read", "mismatch"}
DiskReads == SelectSeq(log, IsDiskRead)
DiskWrites == SelectSeq(log, IsDiskWrite)
CompareLog == SelectSeq(log, IsCompare)

\* A run that has exited without usage error.
Exited(a) == pc = "exited" /\ action = a /\ exc # "usage"

\* C1: run through the entry point, Check exits with status 0 exactly when
\* it returned True and with a non-zero status exactly when it returned False.
C1_ExitStatusFollowsResult ==
    (Exited("cmd_check") /\ exc = "none") =>
        /\ (exit_status = 0) <=> (result = "True")
        /\ (exit_status # 0) <=> (result = "False")

\* C2: Check of an empty device (no fault injected, both node kinds right)
\* returns normally with good = True.
C2_EmptyDeviceVerified ==
    (Exited("cmd_check") /\ exc \notin {"IOError", "ValueError"}
       /\ disk = <<>> /\ ~resized) =>
        exc = "none" /\ good = "True" /\ result = "True"

\* Positions (1-based) at which device and dump differ, a missing byte on
\* either side counting as a difference, and the block a position lies in.
DiffPos ==
    {i \in 1..Max(Len(disk), Len(dump)) :
        i > Len(disk) \/ i > Len(dump) \/ disk[i] # dump[i]}
BlockOf(i) == (i - 1) \div block_size

C3_Pre(k) ==
    /\ Exited("cmd_check") /\ exc # "IOError" /\ ~resized
    /\ diskKind = "blk" /\ dumpKind = "reg"
    /\ k < CeilDiv(Len(disk), block_size)
    /\ DiffPos # {}
    /\ \A i \in DiffPos : BlockOf(i) = k

C3_Post(k) ==
    /\ exc = "none" /\ good = "False" /\ result = "False"
    /\ Len(CompareLog) = 2 * k + 3
    /\ \A i \in 0..k :
        /\ CompareLog[2 * i + 1].ep = "disk" /\ CompareLog[2 * i + 1].op = "read"
        /\ CompareLog[2 * i + 1].id = i
        /\ CompareLog[2 * i + 2].ep = "dump" /\ CompareLog[2 * i + 2].op = "read"
        /\ CompareLog[2 * i + 2].id = i
        /\ i < k => CompareLog[2 * i + 1].n = CompareLog[2 * i + 2].n
    /\ CompareLog[2 * k + 3] = Ev("stdout", "mismatch", k, 0)

\* C3: when device and dump differ only inside block k, Check reads blocks
\* 0..k of both sides in order, reports the mismatch at block k, returns
\* False and touches no block after k.
C3_FirstMismatch == \A k \in 0..MaxDisk : C3_Pre(k) => C3_Post(k)

C3_Witness ==
    \E k \in 1..MaxDisk : C3_Pre(k) /\ block_count > k + 1 /\ result = "False"

\* C4: after Backup of D, Restore of that dump onto a device of the same
\* size and Check of the device against the dump (no fault, no resize), the
\* device holds D and Check returned True.
C4_RoundTrip ==
    rt.stage = 3 => (exc = "none" /\ result = "True" /\ disk = rt.D)

\* The same round trip for a device that is not empty.
C4_RoundTripNonEmpty ==
    (rt.stage = 3 /\ rt.D # <<>>) =>
        (exc = "none" /\ result = "True" /\ disk = rt.D)

\* C5: no run exits with a handle still open.
C5_HandlesClosed ==
    pc = "exited" => (disk_stream # "open" /\ dump_stream # "open")

\* C6: nothing is sought, read, written or truncated before both sides are
\* validated, and a run on a node of the wrong kind ends in a validation
\* error without any such call.
C6_ValidateFirst ==
    /\ log # <<>> => pc \notin {"open", "validate", "validate_dump"}
    /\ (pc = "exited" /\ disk_stream # "none" /\ dump_stream # "none"
          /\ (diskKind # "blk" \/ dumpKind # "reg")) =>
            (exc \in {"ValueError", "IOError"} /\ log = <<>>)

\* C7 as stated: Backup and Check that return normally on a device of stable
\* size have read every block index once and device_size bytes in all.
C7_Original ==
    (pc = "exited" /\ action \in {"cmd_backup", "cmd_check"} /\ exc = "none"
       /\ ~resized) =>
        /\ block_count = CeilDiv(disk_size, block_size)
        /\ Len(DiskReads) = block_count
        /\ SumN(DiskReads) = disk_size

\* C7 amended: block_count is the ceiling of device_size / block_size; the
\* device is read once per block index, in increasing order from 0; Backup
\* that returns has read all block_count indexes, Check that returns has read
\* all of them when no block mismatched and the indexes up to the first
\* mismatching block otherwise; and on a device of stable size, once all
\* block_count indexes are read, every read is block_size long except the
\* last, which is the remainder, so the lengths sum to device_size.
C7_BlockAccounting ==
    (action \in {"cmd_backup", "cmd_check"}) =>
        /\ pc \in {"read", "read_dump", "write", "assert"} =>
              block_count = CeilDiv(disk_size, block_size)
        /\ Len(DiskReads) <= block_count
        /\ \A i \in 1..Len(DiskReads) : DiskReads[i].id = i - 1
        /\ (pc \in {"main", "exited"} /\ exc = "none") =>
              Len(DiskReads) = IF good = "False" THEN block_id + 1 ELSE block_count
        /\ (~resized /\ DiskReads # <<>> /\ Len(DiskReads) = block_count) =>
              /\ \A i \in 1..(block_count - 1) : DiskReads[i].n = block_size
              /\ DiskReads[block_count].n
                    = disk_size - (block_count - 1) * block_size
              /\ SumN(DiskReads) = disk_size

C7_Witness ==
    /\ Exited("cmd_check") /\ exc = "none" /\ ~resized /\ good = "True"
    /\ disk_size = 3 /\ block_size = 2 /\ block_count = 2
    /\ Len(DiskReads) = 2 /\ DiskReads[2].n = 1

\* C8: a zero-byte read of the source inside the loop (device in Backup, dump
\* in Restore) is followed at once by the end-of-data report and by no read
\* or write for that or any later block index.
C8_EarlyEofStops ==
    \A j \in 1..Len(log) :
        (/\ log[j].op = "read" /\ log[j].id >= 0 /\ log[j].n = 0
         /\ \/ action = "cmd_backup" /\ log[j].ep = "disk"
            \/ action = "cmd_restore" /\ log[j].ep = "dump") =>
            /\ j < Len(log)
            /\ log[j + 1] = Ev("stdout", "eof", log[j].id, 0)
            /\ \A m \in (j + 1)..Len(log) :
                  log[m].op \in {"read", "write"} => log[m].id = -1

\* The Restore half of C8 alone.
C8_RestoreEofStops == (action = "cmd_restore") => C8_EarlyEofStops

\* C9: Check returns True only if the decompressed dump equals the device.
C9_VerifiedMeansIdentical ==
    (Exited("cmd_check") /\ exc = "none" /\ result = "True" /\ ~resized) =>
        dump = disk

\* C10: the bytes passed to device writes by Restore never add up to more
\* than the measured device size.
C10_WritesBounded ==
    (action = "cmd_restore" /\ ~resized) => SumN(DiskWrites) <= disk_size

====
